---- MODULE Spec2Model ----
(***************************************************************************)
(* Model of the reconciliation and transfer subsystem of zohosync:         *)
(*   - sync.Engine            (internal/ui/gui/system_tray.go, l.536 ff.)  *)
(*   - storage.Database       (unnamed/part_008)                           *)
(*   - EnhancedSyncEngine     (internal/sync/enhanced_engine.go)           *)
(*   - ConflictHandler        (internal/sync/conflict_handler.go)          *)
(*   - the retry classifier   (internal/sync/sync_test.go, l.175 ff.)      *)
(***************************************************************************)
EXTENDS Integers, Sequences, FiniteSets, TLC

(***************************************************************************)
(* Bounds of the model.                                                    *)
(***************************************************************************)
NumPaths == 2
NumPoolPaths == 4
NumEnhPaths == 3
MaxTime == 2
NumContents == 2
MaxEnvChanges == 1
MaxAttemptInput == 5
MaxStatus == 600
TicksPerSecond == 2
MaxClock == 3
MaxBytes == 3
MaxConsumed == 8
MaxCalls == 3
MaxUpserts == 2
MaxNotifications == 1

Paths == 1..NumPaths
PoolPaths == 1..NumPoolPaths
EnhPaths == 1..NumEnhPaths
Times == 1..MaxTime
Contents == 1..NumContents

(***************************************************************************)
(* Program constants.                                                      *)
(***************************************************************************)
DefaultMaxConcurrent == 3
RetryCap == 3

ErrorTypes ==
  {"network", "auth", "permission", "quota", "conflict", "validation",
   "timeout", "unknown"}

\* failure classes with which the remote collaborator answers in the engine
\* model: one transient class and one permanent class
ApiFailures == {"network", "auth"}

ConflictResolutions == {"newer", "local", "remote", "manual"}
MaxConcurrentChoices == {0, 1, 2}

EmptyHash == 0
NoRemoteID == ""
RemoteIDOf(p) == "r"

VARIABLES
  db,          \* files table: path -> row
  fs,          \* local filesystem: path -> file state
  remote,      \* remote storage: path -> file state
  events,      \* fsnotify events delivered and not yet handled
  cfg,         \* config.Sync of the engine
  cyclePc,     \* position of periodicSync: "off" | "idle" | "syncing"
  workers,     \* goroutines of the running performSync, in listing order
  enh,         \* one call of EnhancedSyncEngine.SynchronizeDirectory
  retry,       \* the last call of ErrorRecovery.HandleError
  hist,        \* observation of the run (not program state)
  backoff,     \* the last call of HandleError on a recovery of any config
  classified,  \* the last call of ClassifyHTTPError
  limiter,     \* a RateLimiter, the wall clock and the bytes consumed
  handler,     \* a ConflictHandler, its ConflictLog and the wall clock
  store,       \* rowids and sync_operations of the database, last results
  run,         \* Engine.Start / Stop: the watcher, its loop, cancellation
  progress     \* a ProgressTracker and the last ProgressInfo

\* the library types of the sync package exercised on their own
syncLibVars == <<backoff, classified, limiter, handler>>

\* the state kept beside the engines' own
libVars == <<syncLibVars, store, run, progress>>

\* the state of the two engines and of the default recovery
engineVars ==
  <<db, fs, remote, events, cfg, cyclePc, workers, enh, retry, hist>>

vars ==
  <<db, fs, remote, events, cfg, cyclePc, workers, enh, retry, hist, libVars>>

(***************************************************************************)
(* storage.Database                                                        *)
(***************************************************************************)
NoRow ==
  [tracked |-> FALSE, remoteID |-> NoRemoteID, mtime |-> 0, hash |-> EmptyHash,
   isDir |-> FALSE, status |-> "none"]

Row(m) ==
  [tracked |-> TRUE, remoteID |-> m.remoteID, mtime |-> m.mtime,
   hash |-> m.hash, isDir |-> m.isDir, status |-> m.status]

\* INSERT OR REPLACE keyed by local_path: the full row is replaced
SaveFileMetadata(d, m) == [d EXCEPT ![m.path] = Row(m)]

Metadata(d, p) ==
  [path |-> p, remoteID |-> d[p].remoteID, mtime |-> d[p].mtime,
   hash |-> d[p].hash, isDir |-> d[p].isDir, status |-> d[p].status]

PendingStatusesWithSyncing == {"pending", "conflict", "error", "syncing"}

\* WHERE sync_status IN ('pending', 'conflict', 'error')
PendingStatuses == {"pending", "conflict", "error"}

PendingPaths(d) ==
  {p \in DOMAIN d : d[p].tracked /\ d[p].status \in PendingStatuses}

\* ORDER BY modified_time DESC; rows of equal modified_time come in any order
IsPendingListing(d, s) ==
  /\ Len(s) = Cardinality(PendingPaths(d))
  /\ {s[i].path : i \in 1..Len(s)} = PendingPaths(d)
  /\ \A i \in 1..Len(s) : s[i] = Metadata(d, s[i].path)
  /\ \A i, j \in 1..Len(s) : i < j => s[i].mtime >= s[j].mtime

RECURSIVE SeqsOver(_, _)
SeqsOver(S, n) ==
  IF n = 0 THEN {<<>>}
  ELSE {Append(s, x) : s \in SeqsOver(S, n - 1), x \in S}

GetPendingFiles(d) ==
  {s \in SeqsOver({Metadata(d, p) : p \in PendingPaths(d)},
                  Cardinality(PendingPaths(d))) : IsPendingListing(d, s)}


(***************************************************************************)
(* Local filesystem and remote storage (collaborators).                    *)
(***************************************************************************)
Absent == [exists |-> FALSE, isDir |-> FALSE, content |-> 0, mtime |-> 0]
File(c, t) == [exists |-> TRUE, isDir |-> FALSE, content |-> c, mtime |-> t]
Dir(t) == [exists |-> TRUE, isDir |-> TRUE, content |-> 0, mtime |-> t]

\* md5 of the file bytes, hex encoded: distinct contents, distinct digests,
\* and no digest is the empty string
calculateFileHash(c) == 100 + c

(***************************************************************************)
(* sync.Engine: change detection                                           *)
(***************************************************************************)
Running(ws) == {i \in 1..Len(ws) : ws[i].pc = "running"}
InFlight(ws, p) == {i \in 1..Len(ws) : ws[i].path = p /\ ws[i].pc = "running"}

Min(a, b) == IF a < b THEN a ELSE b

\* bookkeeping of an environment change on path p
Disturb(h, p) == [h EXCEPT !.quiet = "no"]

\* an environment change, counted against the budget of the model
EnvChange(h, p) == [Disturb(h, p) EXCEPT !.envChanges = @ + 1]
CanChange(h) == h.envChanges < MaxEnvChanges

\* a local process creates or rewrites a file; fsnotify reports Create/Write
LocalWrite(p, c, t) ==
  /\ CanChange(hist)
  /\ ~(fs[p].exists /\ fs[p].isDir)
  /\ fs[p] # File(c, t)
  /\ fs' = [fs EXCEPT ![p] = File(c, t)]
  /\ events' = events \cup {p}
  /\ hist' = EnvChange(hist, p)
  /\ UNCHANGED <<libVars, db, remote, cfg, cyclePc, workers, enh, retry>>

\* a local process creates a directory; fsnotify reports Create
LocalMkdir(p) ==
  /\ CanChange(hist)
  /\ ~fs[p].exists
  /\ fs' = [fs EXCEPT ![p] = Dir(1)]
  /\ events' = events \cup {p}
  /\ hist' = EnvChange(hist, p)
  /\ UNCHANGED <<libVars, db, remote, cfg, cyclePc, workers, enh, retry>>

\* a local process removes the path; fsnotify reports Remove
LocalRemove(p) ==
  /\ CanChange(hist)
  /\ fs[p].exists
  /\ fs' = [fs EXCEPT ![p] = Absent]
  /\ events' = events \cup {p}
  /\ hist' = EnvChange(hist, p)
  /\ UNCHANGED <<libVars, db, remote, cfg, cyclePc, workers, enh, retry>>

\* another client rewrites the remote copy
RemoteWrite(p, c, t) ==
  /\ CanChange(hist)
  /\ remote[p].exists /\ ~remote[p].isDir
  /\ remote[p] # File(c, t)
  /\ remote' = [remote EXCEPT ![p] = File(c, t)]
  /\ hist' = EnvChange(hist, p)
  /\ UNCHANGED <<libVars, db, fs, events, cfg, cyclePc, workers, enh, retry>>

\* queueFileForSync, started by handleFileEvent for an event on path p.
\* os.Stat either succeeds or reports NotExist (any other error returns
\* early); a failed hash is logged and the row is saved all the same.
queueFileForSync(p, hashOk) ==
  /\ p \in events
  /\ hashOk \/ (fs[p].exists /\ ~fs[p].isDir)
  /\ LET info == fs[p]
         metadata ==
           [path |-> p,
            remoteID |-> NoRemoteID,
            isDir |-> info.exists /\ info.isDir,
            status |-> "pending",
            mtime |-> IF info.exists THEN info.mtime ELSE 0,
            hash |-> IF info.exists /\ ~info.isDir /\ hashOk
                       THEN calculateFileHash(info.content) ELSE EmptyHash]
     IN db' = SaveFileMetadata(db, metadata)
  /\ events' = events \ {p}
  /\ hist' = [Disturb(hist, p) EXCEPT
                !.overtaken = IF InFlight(workers, p) # {} THEN @ \cup {p} ELSE @,
                !.fails[p] = 0]
  /\ UNCHANGED <<libVars, fs, remote, cfg, cyclePc, workers, enh, retry>>

(***************************************************************************)
(* sync.Engine: transfers.  A transfer function yields                     *)
(*   err    "ok" or the class of the failure                               *)
(*   f      the worker's metadata after the call                           *)
(*   fs, remote   the two sides after the call                             *)
(*   xfer   the transfer that was executed                                 *)
(***************************************************************************)
Res(err, f, fsv, rem, xfer) ==
  [err |-> err, f |-> f, fs |-> fsv, remote |-> rem, xfer |-> xfer]

\* Engine.uploadFile: a directory is created remotely and its id recorded;
\* for a file the upload is initiated (the session id is only logged)
uploadFile(f, fsv, rem, api) ==
  IF f.isDir
    THEN IF api = "ok"
           THEN Res("ok", [f EXCEPT !.remoteID = RemoteIDOf(f.path)], fsv,
                    IF rem.exists THEN rem ELSE Dir(0), "upload")
           ELSE Res(api, f, fsv, rem, "upload")
    ELSE IF ~fsv.exists
           THEN Res("local", f, fsv, rem, "upload")
           ELSE Res(api, f, fsv, rem, "upload")

\* Engine.downloadFile: GetFileInfo, then MkdirAll for a folder, or
\* DownloadFile and os.Create + io.Copy for a file written at time t
downloadFile(f, fsv, rem, api, t) ==
  IF api # "ok" THEN Res(api, f, fsv, rem, "download")
  ELSE IF ~rem.exists THEN Res("unknown", f, fsv, rem, "download")
  ELSE IF rem.isDir
    THEN IF fsv.exists /\ ~fsv.isDir
           THEN Res("local", f, fsv, rem, "download")
           ELSE Res("ok", f, IF fsv.exists THEN fsv ELSE Dir(t), rem, "download")
    ELSE IF fsv.exists /\ fsv.isDir
           THEN Res("local", f, fsv, rem, "download")
           ELSE Res("ok", f, File(rem.content, t), rem, "download")

\* Engine.resolveConflict: the strategy of config.Sync.ConflictResolution
resolveConflict(f, fsv, rem, api, t, strategy) ==
  IF api # "ok" THEN Res(api, f, fsv, rem, "none")
  ELSE IF ~rem.exists THEN Res("unknown", f, fsv, rem, "none")
  ELSE IF ~fsv.exists THEN Res("local", f, fsv, rem, "none")
  ELSE CASE strategy = "newer" ->
              IF fsv.mtime > rem.mtime
                THEN uploadFile(f, fsv, rem, api)
                ELSE downloadFile(f, fsv, rem, api, t)
         [] strategy = "local" -> uploadFile(f, fsv, rem, api)
         [] strategy = "remote" -> downloadFile(f, fsv, rem, api, t)
         [] OTHER -> Res("ok", [f EXCEPT !.status = "conflict"], fsv, rem, "none")

\* the switch of Engine.syncFile on os.Stat and metadata.RemoteID
Branch(f, fileExists) ==
  CASE fileExists /\ f.remoteID = NoRemoteID -> "upload"
    [] ~fileExists /\ f.remoteID # NoRemoteID -> "download"
    [] fileExists /\ f.remoteID # NoRemoteID -> "conflict"
    [] OTHER -> "none"

\* "Update sync status" of Engine.syncFile
FinalStatus(r) == IF r.err # "ok" THEN "error" ELSE "synced"

\* config.Sync.MaxConcurrentSyncs, 3 when it is not positive
MaxConcurrent(c) ==
  IF c.maxConcurrent <= 0 THEN DefaultMaxConcurrent ELSE c.maxConcurrent

SemAvailableUnbounded(ws, c) == TRUE

\* sem <- struct{}{} goes through while the channel buffer has room
SemAvailable(ws, c) == Cardinality(Running(ws)) < MaxConcurrent(c)

CanStartCycleNoWait(pc) == TRUE

\* periodicSync calls performSync synchronously: the next tick is taken
\* only after wg.Wait() of the previous cycle returned
CanStartCycle(pc) == pc = "idle"

NewWorker(m) ==
  [path |-> m.path, f |-> m, pc |-> "queued", branch |-> "none",
   xfer |-> "none", err |-> "none"]

\* hist.fails[p]: Permanent after a failure of a permanent class, else the
\* number of consecutive network failures of p, counted up to RetryCap
Permanent == 0 - 1
FailsAfter(n, err) ==
  CASE err = "network" -> IF n = Permanent THEN 1 ELSE Min(n + 1, RetryCap)
    [] err = "auth" -> Permanent
    [] OTHER -> 0

\* performSync up to the spawning of the goroutines
performSyncStart ==
  /\ CanStartCycle(cyclePc)
  /\ \E listing \in GetPendingFiles(db) :
       /\ Len(listing) > 0
       /\ workers' = workers \o [i \in 1..Len(listing) |-> NewWorker(listing[i])]
  /\ cyclePc' = "syncing"
  /\ hist' = [hist EXCEPT !.quiet = IF @ = "idle" THEN "cycle" ELSE "first"]
  /\ UNCHANGED <<libVars, db, fs, remote, events, cfg, enh, retry>>

\* performSync when nothing is pending: "No pending files to sync"
performSyncEmpty ==
  /\ CanStartCycle(cyclePc)
  /\ PendingPaths(db) = {}
  /\ hist' = [hist EXCEPT !.quiet = "idle"]
  /\ UNCHANGED <<libVars, db, fs, remote, events, cfg, cyclePc, workers, enh, retry>>

\* a goroutine acquires the semaphore and enters syncFile: os.Stat and the
\* choice of the branch; it then waits for the remote collaborator
syncFileBegin(i) ==
  /\ i \in 1..Len(workers)
  /\ workers[i].pc = "queued"
  /\ SemAvailable(workers, cfg)
  /\ workers' = [workers EXCEPT ![i].pc = "running",
                   ![i].branch = Branch(workers[i].f, fs[workers[i].path].exists)]
  /\ UNCHANGED <<libVars, db, fs, remote, events, cfg, cyclePc, enh, retry, hist>>

\* the rest of syncFile: the transfer, the status update and the save;
\* the deferred release of the semaphore and wg.Done()
syncFileFinish(i, api, t) ==
  /\ i \in 1..Len(workers)
  /\ workers[i].pc = "running"
  /\ LET w == workers[i]
         p == w.path
         r == CASE w.branch = "upload" -> uploadFile(w.f, fs[p], remote[p], api)
                [] w.branch = "download" ->
                     downloadFile(w.f, fs[p], remote[p], api, t)
                [] w.branch = "conflict" ->
                     resolveConflict(w.f, fs[p], remote[p], api, t,
                                     cfg.conflictResolution)
                [] OTHER -> Res("ok", w.f, fs[p], remote[p], "none")
         m == [r.f EXCEPT !.status = FinalStatus(r)]
     IN /\ (w.branch = "none") => (api = "ok")
        /\ (r.fs = fs[p]) => (t = 1)
        /\ db' = SaveFileMetadata(db, m)
        /\ fs' = [fs EXCEPT ![p] = r.fs]
        /\ remote' = [remote EXCEPT ![p] = r.remote]
        /\ events' = IF r.fs # fs[p] THEN events \cup {p} ELSE events
        /\ workers' = [workers EXCEPT ![i].pc = "done", ![i].f = m,
                                      ![i].xfer = r.xfer, ![i].err = r.err]
        /\ hist' = [hist EXCEPT !.fails[p] = FailsAfter(@, r.err),
                                !.overtaken = @ \ {p}]
  /\ UNCHANGED <<libVars, cfg, cyclePc, enh, retry>>

\* wg.Wait() returns: "Sync cycle completed"
performSyncEnd ==
  /\ cyclePc = "syncing"
  /\ \A i \in 1..Len(workers) : workers[i].pc = "done"
  /\ workers' = <<>>
  /\ cyclePc' = "idle"
  /\ hist' = [hist EXCEPT !.quiet = IF @ = "no" THEN "no" ELSE "idle"]
  /\ UNCHANGED <<libVars, db, fs, remote, events, cfg, enh, retry>>

(***************************************************************************)
(* ConflictHandler and EnhancedSyncEngine.  A FileMetadata is Nil (the map *)
(* has no entry) or a record; a SyncOperation is a record.                 *)
(***************************************************************************)
Nil == [present |-> FALSE, size |-> 0, modTime |-> 0, checksum |-> 0]
Meta(size, modTime, checksum) ==
  [present |-> TRUE, size |-> size, modTime |-> modTime, checksum |-> checksum]

Op(type, path, size, meta) ==
  [type |-> type, path |-> path, size |-> size, meta |-> meta]
SkipOp == Op("skip", 0, 0, "none")

resolveByNewestTieUploads(path, local, remote_) ==
  IF local.modTime >= remote_.modTime
    THEN Op("upload", path, local.size, "local")
    ELSE Op("download", path, remote_.size, "remote")

resolveByNewest(path, local, remote_) ==
  IF local.modTime > remote_.modTime
    THEN Op("upload", path, local.size, "local")
    ELSE Op("download", path, remote_.size, "remote")

resolveByLargest(path, local, remote_) ==
  IF local.size > remote_.size
    THEN Op("upload", path, local.size, "local")
    ELSE Op("download", path, remote_.size, "remote")

\* conflictPath of resolveKeepBoth: the name of the local copy carries the
\* time of the call
conflictPath(path, now) == <<path, "conflict_local", now>>

resolveKeepBothToConflictPath(path, local, remote_) ==
  Op("download", conflictPath(path, handler.clock), remote_.size, "remote")

\* conflictPath is logged only: the operation is the download of the remote
\* file to the original path
resolveKeepBoth(path, local, remote_) ==
  Op("download", path, remote_.size, "remote")

resolveManual(path, local, remote_) == Op("conflict", path, 0, "local")

ResolveConflict(strategy, path, local, remote_) ==
  CASE strategy = "newest" -> resolveByNewest(path, local, remote_)
    [] strategy = "largest" -> resolveByLargest(path, local, remote_)
    [] strategy = "keepBoth" -> resolveKeepBoth(path, local, remote_)
    [] strategy = "manual" -> resolveManual(path, local, remote_)
    [] OTHER -> SkipOp

determineSyncOperation(c, path, local, remote_) ==
  IF local.present /\ ~remote_.present
    THEN IF c.strategy = "downloadOnly" THEN SkipOp
         ELSE Op("upload", path, local.size, "local")
  ELSE IF ~local.present /\ remote_.present
    THEN IF c.strategy = "uploadOnly" THEN SkipOp
         ELSE Op("download", path, remote_.size, "remote")
  ELSE IF local.present /\ remote_.present
    THEN IF local.checksum = remote_.checksum THEN SkipOp
         ELSE ResolveConflict(c.resolution, path, local, remote_)
  ELSE SkipOp

\* the operations of planSyncOperations, one per path of either map
PlannedOps(c, localFiles, remoteFiles) ==
  {determineSyncOperation(c, path, localFiles[path], remoteFiles[path]) :
     path \in {q \in DOMAIN localFiles :
                 localFiles[q].present \/ remoteFiles[q].present}} \ {SkipOp}

\* ranging over a Go map yields the paths in any order
planSyncOperations(c, localFiles, remoteFiles) ==
  LET ops == PlannedOps(c, localFiles, remoteFiles)
  IN {s \in SeqsOver(ops, Cardinality(ops)) : {s[i] : i \in 1..Len(s)} = ops}

\* buildRemoteFileMap: the placeholder listing, example.txt alone
ExamplePath == 1
FlakyPath == 2
ExampleSize == 1024
ExampleModTime == 1
ExampleChecksum == 9
buildRemoteFileMap ==
  [p \in EnhPaths |->
     IF p = ExamplePath THEN Meta(ExampleSize, ExampleModTime, ExampleChecksum)
     ELSE Nil]

\* buildLocalFileMap: the files found under the local root; the sha256 of a
\* local file is never the placeholder checksum
LocalSizes == {1024, 2048}
LocalFileMaps ==
  {m \in [EnhPaths -> {Nil} \cup {Meta(sz, t, 1) : sz \in LocalSizes, t \in Times}] :
     \A p \in EnhPaths \ {ExamplePath} :
       m[p].present => (m[p].size = 1024 /\ m[p].modTime = 1)}

EnhResolutions == {"newest", "largest", "manual", "keepBoth"}
\* StrategyMirror is read nowhere: it behaves as StrategyBidirectional
EnhStrategies == {"bidirectional", "uploadOnly", "downloadOnly"}
EnhConcurrencyChoices == {0, 1, 2}
RetryAttemptChoices == {0, 1, 2}

EmptyResult ==
  [uploaded |-> 0, downloaded |-> 0, skipped |-> 0, conflicts |-> 0,
   bytes |-> 0, errors |-> 0]

\* one pass of the retry loop of uploadFile / downloadFile for worker k:
\* "ok", "retry" (the flaky file at attempt 0), "fail" (attempts used up),
\* "cancelled" (ctx.Done)
TransferStep(e, k) ==
  LET op == e.ops[k]
  IN CASE op.type \in {"conflict", "delete"} -> "ok"
       [] e.attempt[k] >= e.cfg.retryAttempts -> "fail"
       [] e.ctxDone -> "cancelled"
       [] op.type = "upload" /\ op.path = FlakyPath /\ e.attempt[k] = 0 -> "retry"
       [] OTHER -> "ok"

\* the update of result under resultMutex
Account(res, op, err) ==
  IF err THEN [res EXCEPT !.errors = @ + 1]
  ELSE CASE op.type = "upload" ->
              [res EXCEPT !.uploaded = @ + 1, !.bytes = @ + op.size]
         [] op.type = "download" ->
              [res EXCEPT !.downloaded = @ + 1, !.bytes = @ + op.size]
         [] op.type = "skip" -> [res EXCEPT !.skipped = @ + 1]
         [] op.type = "conflict" -> [res EXCEPT !.conflicts = @ + 1]
         [] OTHER -> res

EngineIdle ==
  UNCHANGED <<libVars, db, fs, remote, events, cfg, cyclePc, workers, retry, hist>>

\* planSyncOperations and make(chan struct{}, MaxConcurrency)
EnhPlan ==
  /\ enh.pc = "plan"
  /\ \E ops \in planSyncOperations(enh.cfg, enh.local, buildRemoteFileMap) :
       enh' = [enh EXCEPT !.pc = "loop", !.ops = ops,
                          !.attempt = [k \in 1..Len(ops) |-> 0]]
  /\ EngineIdle

\* semaphore <- struct{}{} goes through while the buffer has room
SlotFree(e) == Cardinality(e.running) < e.cfg.maxConcurrency

\* the select of the dispatch loop takes the semaphore: a goroutine starts
EnhDispatch ==
  /\ enh.pc = "loop" /\ enh.next <= Len(enh.ops)
  /\ SlotFree(enh)
  /\ enh' = [enh EXCEPT !.running = @ \cup {enh.next}, !.next = @ + 1]
  /\ EngineIdle

\* the select of the dispatch loop takes ctx.Done(): return result, ctx.Err()
EnhReturnCancelled ==
  /\ enh.pc = "loop" /\ enh.next <= Len(enh.ops)
  /\ enh.ctxDone
  /\ enh' = [enh EXCEPT !.pc = "cancelled"]
  /\ EngineIdle

\* the range over operations is exhausted: wg.Wait()
EnhLoopEnd ==
  /\ enh.pc = "loop" /\ enh.next > Len(enh.ops)
  /\ enh' = [enh EXCEPT !.pc = "wait"]
  /\ EngineIdle

\* wg.Wait() returns: return result, nil
EnhReturn ==
  /\ enh.pc = "wait" /\ enh.running = {}
  /\ enh' = [enh EXCEPT !.pc = "returned"]
  /\ EngineIdle

\* the flaky upload sleeps RetryDelay and tries again, keeping its slot
EnhRetry(k) ==
  /\ k \in enh.running
  /\ TransferStep(enh, k) = "retry"
  /\ enh' = [enh EXCEPT !.attempt[k] = @ + 1]
  /\ EngineIdle

\* executeSyncOperation returns; the result is updated, the slot released
EnhFinish(k) ==
  /\ k \in enh.running
  /\ TransferStep(enh, k) # "retry"
  /\ enh' = [enh EXCEPT
               !.running = @ \ {k},
               !.result = Account(@, enh.ops[k], TransferStep(enh, k) # "ok")]
  /\ EngineIdle

\* the caller cancels the context
EnhCancel ==
  /\ enh.pc \in {"plan", "loop", "wait"}
  /\ ~enh.ctxDone
  /\ enh' = [enh EXCEPT !.ctxDone = TRUE]
  /\ EngineIdle

(***************************************************************************)
(* The retry classifier (errors.go).  Durations are in milliseconds.       *)
(***************************************************************************)
\* what the cause of an error is: nil, a net.Error, an error whose
\* Temporary() is true, or any other error
Causes == {"nil", "network", "temporary", "other"}

isNetworkError(cause) == cause = "network"
isTemporaryError(cause) == cause = "temporary"

isRetryable(errType, cause) ==
  CASE errType \in {"network", "timeout"} -> TRUE
    [] errType = "quota" -> FALSE
    [] errType = "auth" -> FALSE
    [] errType = "permission" -> FALSE
    [] errType = "validation" -> FALSE
    [] errType = "conflict" -> TRUE
    [] OTHER -> cause # "nil" /\ (isNetworkError(cause) \/ isTemporaryError(cause))

NewSyncError(errType, cause) ==
  [type |-> errType, cause |-> cause, retryable |-> isRetryable(errType, cause)]

DefaultRetryConfig ==
  [maxAttempts |-> 3, initialDelay |-> 1000, maxDelay |-> 30000,
   backoffFactor |-> 2, retryableTypes |-> {"network", "timeout", "conflict"}]

ShouldRetryOffByOne(rc, err, attempt) ==
  /\ ~(attempt > rc.maxAttempts)
  /\ err.retryable
  /\ err.type \in rc.retryableTypes

ShouldRetry(rc, err, attempt) ==
  /\ ~(attempt >= rc.maxAttempts)
  /\ err.retryable
  /\ err.type \in rc.retryableTypes

\* result starts at 1.0 and is multiplied int(exp) times
RECURSIVE pow(_, _)
pow(base, exp) == IF exp <= 0 THEN 1 ELSE base * pow(base, exp - 1)

GetDelayUncapped(rc, attempt) ==
  rc.initialDelay * pow(rc.backoffFactor, attempt)

GetDelay(rc, attempt) ==
  LET delay == rc.initialDelay * pow(rc.backoffFactor, attempt)
  IN IF delay > rc.maxDelay THEN rc.maxDelay ELSE delay

HandleErrorConflictUnhalved(rc, err, attempt) ==
  IF ~ShouldRetry(rc, err, attempt)
    THEN [shouldRetry |-> FALSE, delay |-> 0]
    ELSE [shouldRetry |-> TRUE,
          delay |-> CASE err.type = "quota" -> GetDelay(rc, attempt) * 5
                      [] OTHER -> GetDelay(rc, attempt)]

HandleError(rc, err, attempt) ==
  IF ~ShouldRetry(rc, err, attempt)
    THEN [shouldRetry |-> FALSE, delay |-> 0]
    ELSE [shouldRetry |-> TRUE,
          delay |-> CASE err.type = "quota" -> GetDelay(rc, attempt) * 5
                      [] err.type = "conflict" -> GetDelay(rc, attempt) \div 2
                      [] OTHER -> GetDelay(rc, attempt)]

NoRetry ==
  [called |-> FALSE, err |-> NewSyncError("unknown", "nil"), attempt |-> 0,
   out |-> [shouldRetry |-> FALSE, delay |-> 0]]

\* NewErrorRecovery(nil).HandleError(err, attempt) on an error made by
\* NewSyncError
retryHandleError(errType, cause, attempt) ==
  /\ LET err == NewSyncError(errType, cause)
     IN retry' = [called |-> TRUE, err |-> err, attempt |-> attempt,
                  out |-> HandleError(DefaultRetryConfig, err, attempt)]
  /\ UNCHANGED <<libVars, db, fs, remote, events, cfg, cyclePc, workers, enh, hist>>

(***************************************************************************)
(* ErrorRecovery over configurations other than the default one.           *)
(***************************************************************************)
\* BackoffFactor of a configuration: no backoff, the default, a steeper one
BackoffFactors == {1, 2, 3}

\* configurations handed to NewErrorRecovery: the default one, and variants
\* in the attempt cap, the backoff factor and the list of retryable types
RetryConfigs ==
  {[DefaultRetryConfig EXCEPT !.maxAttempts = ma, !.backoffFactor = bf,
                              !.retryableTypes = rt] :
     ma \in {DefaultRetryConfig.maxAttempts, MaxAttemptInput + 1},
     bf \in BackoffFactors,
     rt \in {DefaultRetryConfig.retryableTypes, ErrorTypes}}

NoBackoff ==
  [called |-> FALSE, rc |-> DefaultRetryConfig,
   err |-> NewSyncError("unknown", "nil"), attempt |-> 0,
   out |-> [shouldRetry |-> FALSE, delay |-> 0]]

\* NewErrorRecovery(rc).HandleError(err, attempt) on an error made by
\* NewSyncError
backoffHandleError(rc, errType, cause, attempt) ==
  /\ ~backoff.called
  /\ LET err == NewSyncError(errType, cause)
     IN backoff' = [called |-> TRUE, rc |-> rc, err |-> err,
                    attempt |-> attempt, out |-> HandleError(rc, err, attempt)]
  /\ UNCHANGED <<engineVars, classified, limiter, handler, store, run, progress>>

(***************************************************************************)
(* ClassifyHTTPError.                                                      *)
(***************************************************************************)
\* status codes handed to ClassifyHTTPError, an int of any value
StatusCodes == (0 - 1)..MaxStatus

ClassifyHTTPErrorGatewayTimeoutUnlisted(statusCode, cause) ==
  CASE statusCode = 401 -> NewSyncError("auth", cause)
    [] statusCode = 403 -> NewSyncError("permission", cause)
    [] statusCode = 429 -> NewSyncError("quota", cause)
    [] statusCode = 409 -> NewSyncError("conflict", cause)
    [] statusCode = 408 -> NewSyncError("timeout", cause)
    [] statusCode = 400 -> NewSyncError("validation", cause)
    [] statusCode \in {500, 502, 503} -> NewSyncError("network", cause)
    [] OTHER -> IF statusCode >= 500 THEN NewSyncError("network", cause)
                ELSE NewSyncError("unknown", cause)

\* the switch on http.StatusUnauthorized .. http.StatusServiceUnavailable
ClassifyHTTPError(statusCode, cause) ==
  CASE statusCode = 401 -> NewSyncError("auth", cause)
    [] statusCode = 403 -> NewSyncError("permission", cause)
    [] statusCode = 429 -> NewSyncError("quota", cause)
    [] statusCode = 409 -> NewSyncError("conflict", cause)
    [] statusCode \in {408, 504} -> NewSyncError("timeout", cause)
    [] statusCode = 400 -> NewSyncError("validation", cause)
    [] statusCode \in {500, 502, 503} -> NewSyncError("network", cause)
    [] OTHER -> IF statusCode >= 500 THEN NewSyncError("network", cause)
                ELSE NewSyncError("unknown", cause)

NoClassified ==
  [called |-> FALSE, status |-> 0, err |-> NewSyncError("unknown", "nil")]

\* a call of ClassifyHTTPError
classifyHTTPError(statusCode, cause) ==
  /\ ~classified.called
  /\ classified' = [called |-> TRUE, status |-> statusCode,
                    err |-> ClassifyHTTPError(statusCode, cause)]
  /\ UNCHANGED <<engineVars, backoff, limiter, handler, store, run, progress>>

(***************************************************************************)
(* RateLimiter.  The wall clock counts ticks, TicksPerSecond to a second.  *)
(***************************************************************************)
\* BandwidthLimit of the engine: no limit, or a number of bytes per second
BytesPerSecondChoices == {0, 2, 3}

NewRateLimiter(bytesPerSecond, now) ==
  [bytesPerSecond |-> bytesPerSecond, bucket |-> bytesPerSecond,
   lastUpdate |-> now]

\* refill by int64(elapsed.Seconds() * bytesPerSecond), capped; no wait
WaitForCapacity(rl, now) ==
  IF rl.bytesPerSecond <= 0 THEN rl
  ELSE LET elapsed == now - rl.lastUpdate
           tokensToAdd == (elapsed * rl.bytesPerSecond) \div TicksPerSecond
           bucket == rl.bucket + tokensToAdd
       IN [rl EXCEPT !.bucket = IF bucket > rl.bytesPerSecond
                                  THEN rl.bytesPerSecond ELSE bucket,
                     !.lastUpdate = now]

ConsumeCapacityUnfloored(rl, bytes) ==
  IF rl.bytesPerSecond <= 0 THEN rl
  ELSE [rl EXCEPT !.bucket = rl.bucket - bytes]

\* debit the bucket, floored at zero
ConsumeCapacity(rl, bytes) ==
  IF rl.bytesPerSecond <= 0 THEN rl
  ELSE [rl EXCEPT !.bucket = IF rl.bucket - bytes < 0 THEN 0
                             ELSE rl.bucket - bytes]

\* base: the limiter as the last ConsumeCapacity (or NewRateLimiter) left
\* it, before the WaitForCapacity calls made since
NoLimiter ==
  [on |-> FALSE, rl |-> NewRateLimiter(0, 0), now |-> 0, consumed |-> 0,
   base |-> NewRateLimiter(0, 0)]

\* time passes
limiterTick ==
  /\ limiter.on /\ limiter.now < MaxClock
  /\ limiter' = [limiter EXCEPT !.now = @ + 1]
  /\ UNCHANGED <<engineVars, backoff, classified, handler, store, run, progress>>

\* a transfer calls rateLimiter.WaitForCapacity(ctx)
limiterWaitForCapacity ==
  /\ limiter.on
  /\ limiter' = [limiter EXCEPT !.rl = WaitForCapacity(@, limiter.now)]
  /\ UNCHANGED <<engineVars, backoff, classified, handler, store, run, progress>>

\* a transfer calls rateLimiter.ConsumeCapacity(bytes)
limiterConsumeCapacity(bytes) ==
  /\ limiter.on /\ limiter.consumed + bytes <= MaxConsumed
  /\ limiter' = [limiter EXCEPT !.rl = ConsumeCapacity(@, bytes),
                                !.consumed = @ + bytes,
                                !.base = ConsumeCapacity(limiter.rl, bytes)]
  /\ UNCHANGED <<engineVars, backoff, classified, handler, store, run, progress>>

(***************************************************************************)
(* A ConflictHandler called on its own, and the ConflictLog.               *)
(***************************************************************************)
\* ConflictLog.LogConflict; no function of the repository calls it
LogConflict(conflicts, info) == Append(conflicts, info)

\* ConflictResolution is an int: the four strategies and any other value
HandlerStrategies == EnhResolutions \cup {"other"}

\* the paths on which the handler is called
HandlerPaths == {ExamplePath, FlakyPath}

\* the two views of a path in conflict: the checksums differ
LocalViews == {Meta(sz, t, 1) : sz \in LocalSizes, t \in Times}
RemoteViews == {Meta(sz, t, ExampleChecksum) : sz \in LocalSizes, t \in Times}

NoResolve ==
  [path |-> 0, local |-> Nil, remote |-> Nil, at |-> 0, out |-> SkipOp]

\* conflicts: the ConflictLog; renamed: the conflict paths to which a local
\* copy was renamed; prev: the call before last, kept when it had the
\* arguments of the last one
NoHandler ==
  [on |-> FALSE, strategy |-> "other", clock |-> 0, calls |-> 0,
   conflicts |-> <<>>, renamed |-> {}, prev |-> NoResolve, last |-> NoResolve]

\* time passes
handlerTick ==
  /\ handler.on /\ handler.clock < MaxClock
  /\ handler' = [handler EXCEPT !.clock = @ + 1]
  /\ UNCHANGED <<engineVars, backoff, classified, limiter, store, run, progress>>

\* a call of ConflictHandler.ResolveConflict
handlerResolveConflict(path, local, remote_) ==
  /\ handler.on /\ handler.calls < MaxCalls
  /\ LET call == [path |-> path, local |-> local, remote |-> remote_,
                  at |-> handler.clock,
                  out |-> ResolveConflict(handler.strategy, path, local, remote_)]
         same == /\ handler.last.path = path
                 /\ handler.last.local = local
                 /\ handler.last.remote = remote_
     IN handler' = [handler EXCEPT
                      !.calls = @ + 1,
                      !.prev = IF same THEN handler.last ELSE NoResolve,
                      !.last = call]
  /\ UNCHANGED <<engineVars, backoff, classified, limiter, store, run, progress>>

(***************************************************************************)
(* storage.Database with its rowids and the sync_operations table.  db     *)
(* holds the columns of table files by local_path; store.ids the id of     *)
(* each row and store.seq the largest id AUTOINCREMENT has handed out.     *)
(***************************************************************************)
StorePaths == 1..(NumPaths + 1)

\* rows that earlier runs left in the table; the remote id is known once
\* the path was seen remotely
StoredRows ==
  {[tracked |-> TRUE,
    remoteID |-> IF st \in {"synced", "syncing", "conflict"}
                   THEN RemoteIDOf(0) ELSE NoRemoteID,
    mtime |-> t, hash |-> EmptyHash, isDir |-> FALSE, status |-> st] :
     st \in {"pending", "syncing", "synced", "conflict", "error"},
     t \in Times}

\* INSERT OR REPLACE deletes the row that holds the local_path and inserts
\* a new one; no id is given, so AUTOINCREMENT assigns the next one
AssignRowid(st, p) == [st EXCEPT !.seq = @ + 1, !.ids[p] = st.seq + 1]

NoOut == [found |-> FALSE, id |-> 0, m |-> <<>>]

\* SELECT id, ... WHERE local_path = ?; nil when there is no row
GetFileMetadata(d, ids, p) ==
  IF d[p].tracked THEN [found |-> TRUE, id |-> ids[p], m |-> Metadata(d, p)]
  ELSE NoOut

\* INSERT INTO sync_operations (file_id, operation_type, status, ...)
LogSyncOperation(log, fileID, path, status) ==
  Append(log, [fileID |-> fileID, path |-> path, status |-> status])

NoUpsert == <<>>

\* last: the metadata of the last upsert of each path; saved: the path of
\* the last upsert; listing: the result
\* of the last GetPendingFiles with the ID of each element; out: the result
\* of the last GetFileMetadata; synced: the listed elements syncFile ran on;
\* lastSync: column last_sync of each row, the k-th save of the run being
\* made at time k and the rows found at the start at time 0
NoStore ==
  [on |-> FALSE, ids |-> <<>>, seq |-> 0, log |-> <<>>, last |-> <<>>,
   upserts |-> 0, saved |-> 0, listed |-> FALSE, listing |-> <<>>,
   synced |-> {}, out |-> NoOut, lastSync |-> <<>>]

\* SELECT COUNT(*), COUNT(CASE WHEN sync_status = 'synced' ...),
\* MAX(last_sync) FROM files; MAX is NULL on an empty table and LastSync
\* then stays the zero time
GetSyncStats(d, st) ==
  LET rows == {p \in DOMAIN d : d[p].tracked}
  IN [totalFiles |-> Cardinality(rows),
      syncedFiles |-> Cardinality({p \in rows : d[p].status = "synced"}),
      lastSync |-> IF rows = {} THEN 0
                   ELSE CHOOSE t \in {st.lastSync[p] : p \in rows} :
                          \A q \in rows : st.lastSync[q] <= t]

StoreIdle ==
  UNCHANGED <<fs, remote, events, cfg, cyclePc, workers, enh, retry, hist,
              syncLibVars, run, progress>>

\* the paths that change while the store is observed
ChangedPaths == {1, 2}

\* the change detector upserts path p as pending (queueFileForSync); the
\* file was modified last
storeSaveFileMetadata(p) ==
  /\ store.on /\ ~store.listed /\ store.upserts < MaxUpserts
  /\ LET m == [path |-> p, remoteID |-> NoRemoteID, mtime |-> MaxTime,
               hash |-> EmptyHash, isDir |-> FALSE, status |-> "pending"]
     IN /\ db' = SaveFileMetadata(db, m)
        /\ store' = [AssignRowid(store, p) EXCEPT
                       !.last[p] = m, !.saved = p, !.upserts = @ + 1,
                       !.out = NoOut, !.lastSync[p] = store.upserts + 1]
  /\ StoreIdle

\* a call of GetFileMetadata
storeGetFileMetadata(p) ==
  /\ store.on /\ ~store.listed /\ store.out = NoOut
  /\ store' = [store EXCEPT !.out = GetFileMetadata(db, store.ids, p)]
  /\ UNCHANGED db
  /\ StoreIdle

\* performSync reads the listing; metadata.ID is the id of the row
storeGetPendingFiles ==
  /\ store.on /\ ~store.listed
  /\ \E listing \in GetPendingFiles(db) :
       store' = [store EXCEPT
                   !.listed = TRUE, !.out = NoOut,
                   !.listing = [k \in 1..Len(listing) |->
                                  [id |-> store.ids[listing[k].path],
                                   m |-> listing[k]]]]
  /\ UNCHANGED db
  /\ StoreIdle

\* the calls of syncFile on the store for element k of the listing: the two
\* log rows under metadata.ID, then the save of the final status; the
\* workers of this run go through syncFile one after the other
storeSyncFile(k, ok) ==
  /\ store.on /\ store.listed
  /\ store.upserts < MaxUpserts
  /\ k \in 1..Len(store.listing) /\ k \notin store.synced
  /\ \A j \in 1..(k - 1) : j \in store.synced
  /\ LET e == store.listing[k]
         status == IF ok THEN "synced" ELSE "error"
         m == [e.m EXCEPT !.status = status]
         started == LogSyncOperation(store.log, e.id, e.m.path, "started")
     IN /\ db' = SaveFileMetadata(db, m)
        /\ store' = [AssignRowid(store, e.m.path) EXCEPT
                       !.log = LogSyncOperation(started, e.id, e.m.path,
                                                IF ok THEN "success" ELSE "failed"),
                       !.last[e.m.path] = m, !.saved = e.m.path,
                       !.upserts = @ + 1, !.synced = @ \cup {k},
                       !.lastSync[e.m.path] = store.upserts + 1]
  /\ StoreIdle

(***************************************************************************)
(* ProgressTracker.  A float64 quotient is kept as the exact fraction      *)
(* num / den; elapsed time counts ticks, TicksPerSecond to a second.       *)
(***************************************************************************)
Frac(num, den) == [num |-> num, den |-> den]
Zero == Frac(0, 1)

\* NewProgressTracker: every counter is zero, startTime is now
NewProgressTracker ==
  [totalFiles |-> 0, completedFiles |-> 0, totalBytes |-> 0,
   transferredBytes |-> 0, currentFile |-> "", errors |-> 0]

GetProgressUnguarded(pt, elapsed) ==
  [totalFiles |-> pt.totalFiles, completedFiles |-> pt.completedFiles,
   totalBytes |-> pt.totalBytes, transferredBytes |-> pt.transferredBytes,
   fileProgress |-> Frac(pt.completedFiles * 100, pt.totalFiles),
   byteProgress |-> Frac(pt.transferredBytes * 100, pt.totalBytes),
   currentFile |-> pt.currentFile, elapsed |-> elapsed,
   speed |-> Zero, eta |-> 0, errorCount |-> pt.errors]

\* the four guarded quotients of GetProgress; the ETA is cut to whole
\* seconds by the conversion to time.Duration
GetProgress(pt, elapsed) ==
  LET speed == IF elapsed > 0
                 THEN Frac(pt.transferredBytes * TicksPerSecond, elapsed)
                 ELSE Zero
  IN [totalFiles |-> pt.totalFiles, completedFiles |-> pt.completedFiles,
      totalBytes |-> pt.totalBytes, transferredBytes |-> pt.transferredBytes,
      fileProgress |-> IF pt.totalFiles > 0
                         THEN Frac(pt.completedFiles * 100, pt.totalFiles)
                         ELSE Zero,
      byteProgress |-> IF pt.totalBytes > 0
                         THEN Frac(pt.transferredBytes * 100, pt.totalBytes)
                         ELSE Zero,
      currentFile |-> pt.currentFile, elapsed |-> elapsed,
      speed |-> speed,
      eta |-> IF speed.num > 0 /\ pt.totalBytes > pt.transferredBytes
                THEN ((pt.totalBytes - pt.transferredBytes) * speed.den)
                       \div speed.num
                ELSE 0,
      errorCount |-> pt.errors]

NoInfo == <<>>

\* op: the method called last; info: the ProgressInfo of GetProgress
NoProgress ==
  [on |-> FALSE, pt |-> NewProgressTracker, clock |-> 0, op |-> "none",
   info |-> NoInfo]

ProgressIdle == UNCHANGED <<engineVars, syncLibVars, store, run>>

\* time passes
progressTick ==
  /\ progress.on /\ progress.info = NoInfo /\ progress.clock < MaxClock
  /\ progress' = [progress EXCEPT !.clock = @ + 1]
  /\ ProgressIdle

SetTotals(files, bytes) ==
  /\ progress.on /\ progress.info = NoInfo
  /\ progress' = [progress EXCEPT !.pt.totalFiles = files,
                                  !.pt.totalBytes = bytes,
                                  !.op = "SetTotals"]
  /\ ProgressIdle

UpdateFileProgress(filename, bytesTransferred) ==
  /\ progress.on /\ progress.info = NoInfo
  /\ progress.pt.transferredBytes + bytesTransferred <= MaxConsumed
  /\ progress' = [progress EXCEPT
                    !.pt.currentFile = filename,
                    !.pt.transferredBytes = @ + bytesTransferred,
                    !.op = "UpdateFileProgress"]
  /\ ProgressIdle

CompleteFile(filename) ==
  /\ progress.on /\ progress.info = NoInfo
  /\ progress.pt.completedFiles <= MaxCalls
  /\ progress' = [progress EXCEPT !.pt.completedFiles = @ + 1,
                                  !.pt.currentFile = "",
                                  !.op = "CompleteFile"]
  /\ ProgressIdle

AddError ==
  /\ progress.on /\ progress.info = NoInfo
  /\ progress.pt.errors = 0
  /\ progress' = [progress EXCEPT !.pt.errors = @ + 1, !.op = "AddError"]
  /\ ProgressIdle

\* a status display reads the snapshot
progressGetProgress ==
  /\ progress.on /\ progress.info = NoInfo
  /\ progress' = [progress EXCEPT
                    !.info = GetProgress(progress.pt, progress.clock),
                    !.op = "GetProgress"]
  /\ ProgressIdle

(***************************************************************************)
(* Engine.Start / Stop, the watcher loop and the ignore rules.  A path     *)
(* name is the sequence of its characters.                                 *)
(***************************************************************************)
HasPrefix(s, prefix) ==
  Len(s) >= Len(prefix) /\ SubSeq(s, 1, Len(prefix)) = prefix

HasSuffix(s, suffix) ==
  Len(s) >= Len(suffix) /\ SubSeq(s, Len(s) - Len(suffix) + 1, Len(s)) = suffix

\* filepath.Base: the last element of the path, trailing separators removed
RECURSIVE TrimSeparators(_)
TrimSeparators(path) ==
  IF path # <<>> /\ path[Len(path)] = "/"
    THEN TrimSeparators(SubSeq(path, 1, Len(path) - 1))
    ELSE path

Base(path) ==
  IF path = <<>> THEN <<".">>
  ELSE LET t == TrimSeparators(path)
           at == {i \in 1..Len(t) : t[i] = "/"}
           last == IF at = {} THEN 0
                   ELSE CHOOSE i \in at : \A j \in at : j <= i
       IN IF t = <<>> THEN <<"/">> ELSE SubSeq(t, last + 1, Len(t))

tmpExtensions ==
  {<<".", "t", "m", "p">>, <<".", "t", "e", "m", "p">>,
   <<".", "s", "w", "p">>, <<".", "s", "w", "o">>, <<"~">>}

systemFiles ==
  {<<"T", "h", "u", "m", "b", "s", ".", "d", "b">>,
   <<".", "D", "S", "_", "S", "t", "o", "r", "e">>,
   <<"d", "e", "s", "k", "t", "o", "p", ".", "i", "n", "i">>}

shouldIgnoreFileTildeUnlisted(path) ==
  LET name == Base(path)
  IN \/ HasPrefix(name, <<".">>)
     \/ \E ext \in tmpExtensions \ {<<"~">>} : HasSuffix(name, ext)
     \/ name \in systemFiles

shouldIgnoreFile(path) ==
  LET name == Base(path)
  IN \/ HasPrefix(name, <<".">>)
     \/ \E ext \in tmpExtensions : HasSuffix(name, ext)
     \/ name \in systemFiles

\* the operations fsnotify reports
EventOps == {"create", "write", "remove", "rename", "chmod"}

\* the switch of handleFileEvent on event.Op
syncRequired(op) == op \in {"create", "write", "remove", "rename"}

\* names under a watched folder: plain names and names under each rule
WatchedNames ==
  {<<"d", "/", "a", ".", "t", "x", "t">>,
   <<"d", "/", "t", "m", "p">>,
   <<"d", "/", "t", "h", "u", "m", "b", "s", ".", "d", "b">>,
   <<".", "d", "/", "a">>,
   <<"d", "/", ".", "a">>,
   <<"d", "/", "a", ".", "t", "m", "p">>,
   <<"d", "/", "a", ".", "t", "e", "m", "p">>,
   <<"d", "/", "a", ".", "s", "w", "p">>,
   <<"d", "/", "a", ".", "s", "w", "o">>,
   <<"d", "/", "a", "~">>,
   <<"d", "/", "T", "h", "u", "m", "b", "s", ".", "d", "b">>,
   <<"d", "/", ".", "D", "S", "_", "S", "t", "o", "r", "e">>,
   <<"d", "/", "d", "e", "s", "k", "t", "o", "p", ".", "i", "n", "i">>}

\* notes: the events in watcher.Events; handled: the events handleFileEvent
\* was called on; stopped: stopChan is closed; fresh: the names written
\* to less than a debounce window ago; panicked: the process has died of
\* a run-time panic
NoRun ==
  [started |-> FALSE, isRunning |-> FALSE, stopped |-> FALSE,
   ctxDone |-> FALSE, watchPc |-> "none", notes |-> {}, handled |-> {},
   delivered |-> 0, fresh |-> {}, panicked |-> FALSE]

\* Engine.Start: the watcher is created, the two loops are started
engineStart ==
  /\ ~run.started /\ ~run.isRunning /\ cyclePc = "off"
  /\ run' = [run EXCEPT !.started = TRUE, !.isRunning = TRUE,
                        !.watchPc = "select"]
  /\ cyclePc' = "idle"
  /\ UNCHANGED <<db, fs, remote, events, cfg, workers, enh, retry, hist,
                 syncLibVars, store, progress>>

\* Engine.Start on an engine that was stopped and whose loops have
\* returned: a new watcher and two new loops; stopChan is the channel made
\* by NewEngine and stays closed
engineStartAgain ==
  /\ run.started /\ ~run.isRunning /\ ~run.panicked
  /\ run.watchPc = "returned" /\ cyclePc = "off"
  /\ run' = [run EXCEPT !.isRunning = TRUE, !.watchPc = "select"]
  /\ cyclePc' = "idle"
  /\ UNCHANGED <<db, fs, remote, events, cfg, workers, enh, retry, hist,
                 syncLibVars, store, progress>>

\* Engine.Stop: close(stopChan), watcher.Close(); the close of a closed
\* channel panics
engineStop ==
  /\ run.isRunning /\ ~run.panicked
  /\ run' = IF run.stopped
              THEN [run EXCEPT !.panicked = TRUE]
              ELSE [run EXCEPT !.isRunning = FALSE, !.stopped = TRUE,
                               !.notes = {}]
  /\ UNCHANGED <<engineVars, syncLibVars, store, progress>>

\* the caller of Start cancels the context
ctxCancel ==
  /\ run.started /\ ~run.ctxDone
  /\ run' = [run EXCEPT !.ctxDone = TRUE]
  /\ UNCHANGED <<engineVars, syncLibVars, store, progress>>

Cancelled == run.ctxDone \/ run.stopped

\* the select of watchFileChanges takes ctx.Done(), stopChan or the closed
\* Events channel
watchFileChangesReturn ==
  /\ run.watchPc = "select" /\ Cancelled /\ ~run.panicked
  /\ run' = [run EXCEPT !.watchPc = "returned"]
  /\ UNCHANGED <<engineVars, syncLibVars, store, progress>>

\* the select of periodicSync takes ctx.Done() or stopChan
periodicSyncReturn ==
  /\ cyclePc = "idle" /\ Cancelled /\ ~run.panicked
  /\ cyclePc' = "off"
  /\ UNCHANGED <<db, fs, remote, events, cfg, workers, enh, retry, hist,
                 libVars>>

\* the kernel reports a change under a watched folder
fsNotify(name, op) ==
  /\ run.watchPc # "none" /\ run.isRunning /\ ~run.panicked
  /\ run.delivered < MaxNotifications
  /\ run' = [run EXCEPT !.notes = @ \cup {[name |-> name, op |-> op]},
                        !.delivered = @ + 1,
                        !.fresh = IF op = "write" THEN @ \cup {name} ELSE @]
  /\ UNCHANGED <<engineVars, syncLibVars, store, progress>>

\* a debounce window goes by without a write; no timer of the engine
\* waits for it
windowPasses ==
  /\ run.fresh # {}
  /\ run' = [run EXCEPT !.fresh = {}]
  /\ UNCHANGED <<engineVars, syncLibVars, store, progress>>

\* the select of watchFileChanges takes an event: handleFileEvent, which
\* starts queueFileForSync for a path that is not ignored
handleFileEvent(event) ==
  /\ run.watchPc = "select" /\ event \in run.notes /\ ~run.panicked
  /\ run' = [run EXCEPT !.notes = @ \ {event}, !.handled = @ \cup {event}]
  /\ events' = IF ~shouldIgnoreFile(event.name) /\ syncRequired(event.op)
                 THEN events \cup {event.name} ELSE events
  /\ UNCHANGED <<db, fs, remote, cfg, cyclePc, workers, enh, retry, hist,
                 syncLibVars, store, progress>>

\* nothing is kept beside the engines
InitAside == store = NoStore /\ run = NoRun /\ progress = NoProgress

\* no library type is exercised on its own
InitLib ==
  /\ backoff = NoBackoff
  /\ classified = NoClassified
  /\ limiter = NoLimiter
  /\ handler = NoHandler
  /\ InitAside

(***************************************************************************)
(* Initial states: the engine is constructed over a database file that     *)
(* may hold rows of earlier runs.  A path is unknown on both sides, known  *)
(* remotely only, or present on both sides.                                *)
(***************************************************************************)
Untracked == [row |-> NoRow, fs |-> Absent, remote |-> Absent]

RemoteOnly(c, t) ==
  [row |-> [tracked |-> TRUE, remoteID |-> "r", mtime |-> t, hash |-> EmptyHash,
            isDir |-> FALSE, status |-> "pending"],
   fs |-> Absent, remote |-> File(c, t)]

BothSides(lc, lt, rc, rt) ==
  [row |-> [tracked |-> TRUE, remoteID |-> "r", mtime |-> lt,
            hash |-> calculateFileHash(lc), isDir |-> FALSE,
            status |-> "pending"],
   fs |-> File(lc, lt), remote |-> File(rc, rt)]

\* SynchronizeDirectory has not been called
NoCall ==
  [pc |-> "none", cfg |-> <<>>, local |-> <<>>, ops |-> <<>>, next |-> 1,
   running |-> {}, attempt |-> <<>>, ctxDone |-> FALSE, result |-> <<>>]

Scenario(k) ==
  CASE k = 1 -> Untracked
    [] k = 2 -> RemoteOnly(1, 1)
    [] OTHER -> BothSides(1, 1, 1, 1)

ScenarioIds == {1, 2, 3}

\* scenarios in which the store lists the path as pending
PendingScenarioIds == {2, 3}

\* hist.quiet: "first" while a cycle runs and nothing changed since it
\* started, "idle" after such a cycle completed and nothing changed since,
\* "cycle" while the cycle that started then runs undisturbed, else "no"
InitHist(P) ==
  [quiet |-> "no", overtaken |-> {}, fails |-> [p \in P |-> 0],
   envChanges |-> 0]

\* one path with a history, the others unknown; MaxConcurrentSyncs unset
Init ==
  /\ \E k \in [Paths -> ScenarioIds] :
       /\ \A p \in Paths : p > 1 => k[p] = 1
       /\ db = [p \in Paths |-> Scenario(k[p]).row]
       /\ fs = [p \in Paths |-> Scenario(k[p]).fs]
       /\ remote = [p \in Paths |-> Scenario(k[p]).remote]
  /\ events = {}
  /\ \E cr \in ConflictResolutions :
       cfg = [maxConcurrent |-> 0, conflictResolution |-> cr]
  /\ cyclePc = "idle"
  /\ workers = <<>>
  /\ enh = NoCall
  /\ retry = NoRetry
  /\ hist = InitHist(Paths)
  /\ InitLib

Next ==
  \/ \E p \in Paths, c \in Contents, t \in Times : LocalWrite(p, c, t)
  \/ \E p \in Paths : LocalMkdir(p)
  \/ \E p \in Paths : LocalRemove(p)
  \/ \E p \in Paths, c \in Contents, t \in Times : RemoteWrite(p, c, t)
  \/ \E p \in Paths, hashOk \in BOOLEAN : queueFileForSync(p, hashOk)
  \/ performSyncStart
  \/ performSyncEmpty
  \/ \E i \in 1..Len(workers) : syncFileBegin(i)
  \/ \E i \in 1..Len(workers), api \in {"ok"} \cup ApiFailures, t \in Times :
       syncFileFinish(i, api, t)
  \/ performSyncEnd

Spec == Init /\ [][Next]_vars

(***************************************************************************)
(* The worker pool on its own: every path is pending when the engine       *)
(* starts and no other process touches the two sides; the only events are  *)
(* those of the files the engine itself writes, left unhandled.            *)
(***************************************************************************)
InitPool ==
  /\ \E k \in [PoolPaths -> PendingScenarioIds] :
       /\ \A p \in PoolPaths : p > 1 => k[p] = 2
       /\ db = [p \in PoolPaths |-> Scenario(k[p]).row]
       /\ fs = [p \in PoolPaths |-> Scenario(k[p]).fs]
       /\ remote = [p \in PoolPaths |-> Scenario(k[p]).remote]
  /\ events = {}
  /\ \E mc \in MaxConcurrentChoices :
       cfg = [maxConcurrent |-> mc, conflictResolution |-> "newer"]
  /\ cyclePc = "idle"
  /\ workers = <<>>
  /\ enh = NoCall
  /\ retry = NoRetry
  /\ hist = InitHist(PoolPaths)
  /\ InitLib

\* the remote collaborator answers or refuses; files are written at time 1
\* a call of SynchronizeDirectory on an engine of any configuration
InitEnh ==
  /\ db = <<>> /\ fs = <<>> /\ remote = <<>>
  /\ events = {}
  /\ cfg = [maxConcurrent |-> 0, conflictResolution |-> "newer"]
  /\ cyclePc = "off"
  /\ workers = <<>>
  /\ hist = InitHist({})
  /\ retry = NoRetry
  /\ \E mc \in EnhConcurrencyChoices, ra \in RetryAttemptChoices,
        res \in EnhResolutions, st \in EnhStrategies, lf \in LocalFileMaps :
       enh = [pc |-> "plan",
              cfg |-> [maxConcurrency |-> mc, retryAttempts |-> ra,
                       resolution |-> res, strategy |-> st],
              local |-> lf, ops |-> <<>>, next |-> 1, running |-> {},
              attempt |-> <<>>, ctxDone |-> FALSE, result |-> EmptyResult]
  /\ InitLib

NextEnh ==
  \/ EnhPlan
  \/ EnhDispatch
  \/ EnhReturnCancelled
  \/ EnhLoopEnd
  \/ EnhReturn
  \/ \E k \in EnhPaths : EnhRetry(k)
  \/ \E k \in EnhPaths : EnhFinish(k)
  \/ EnhCancel

SpecEnh == InitEnh /\ [][NextEnh]_vars

\* the scheduler runs every goroutine that can take a step; the caller is
\* free to cancel or not
FairEnh ==
  /\ WF_vars(EnhPlan) /\ WF_vars(EnhDispatch) /\ WF_vars(EnhLoopEnd)
  /\ WF_vars(EnhReturn) /\ WF_vars(EnhReturnCancelled)
  /\ \A k \in EnhPaths : WF_vars(EnhRetry(k)) /\ WF_vars(EnhFinish(k))

SpecEnhLive == SpecEnh /\ FairEnh

\* the two worker pools: Engine.performSync and SynchronizeDirectory.  A
\* cycle that finds nothing pending changes nothing and is left out.
\* The collaborator refuses transfers of the first path only, which is
\* enough for a path to be listed again by a later cycle.
\* The enhanced engine resolves by newest in both directions here: the
\* strategies decide which operations are planned, not how they are run.
InitWorkers ==
  \/ InitPool
  \/ InitEnh /\ enh.cfg.resolution = "newest"
             /\ enh.cfg.strategy = "bidirectional"

NextPool ==
  \/ performSyncStart
  \/ \E i \in 1..Len(workers) : syncFileBegin(i)
  \/ \E i \in 1..Len(workers), api \in {"ok", "auth"} :
       /\ api = "auth" => workers[i].path = 1
       /\ syncFileFinish(i, api, 1)
  \/ performSyncEnd
  \/ EnhPlan
  \/ EnhDispatch
  \/ EnhReturnCancelled
  \/ EnhLoopEnd
  \/ EnhReturn
  \/ \E k \in EnhPaths : EnhRetry(k)
  \/ \E k \in EnhPaths : EnhFinish(k)
  \/ EnhCancel

SpecPool == InitWorkers /\ [][NextPool]_vars

\* the retry classifier called on every error and attempt number
InitRetry ==
  /\ db = <<>> /\ fs = <<>> /\ remote = <<>>
  /\ events = {}
  /\ cfg = [maxConcurrent |-> 0, conflictResolution |-> "newer"]
  /\ cyclePc = "off"
  /\ workers = <<>>
  /\ enh = NoCall
  /\ hist = InitHist({})
  /\ retry = NoRetry
  /\ InitLib

NextRetry ==
  \E errType \in ErrorTypes, cause \in Causes, attempt \in -1..MaxAttemptInput :
    retryHandleError(errType, cause, attempt)

SpecRetry == InitRetry /\ [][NextRetry]_vars

\* recoveries of every configuration called on every error and attempt
NextBackoff ==
  \E rc \in RetryConfigs, errType \in ErrorTypes, cause \in Causes,
     attempt \in -1..MaxAttemptInput :
    backoffHandleError(rc, errType, cause, attempt)

SpecBackoff == InitRetry /\ [][NextBackoff]_vars

\* ClassifyHTTPError called on every status code and cause
NextClassify ==
  \E statusCode \in StatusCodes, cause \in Causes :
    classifyHTTPError(statusCode, cause)

SpecClassify == InitRetry /\ [][NextClassify]_vars

\* neither engine runs and the default recovery has not been called
EnginesOff ==
  /\ db = <<>> /\ fs = <<>> /\ remote = <<>>
  /\ events = {}
  /\ cfg = [maxConcurrent |-> 0, conflictResolution |-> "newer"]
  /\ cyclePc = "off"
  /\ workers = <<>>
  /\ enh = NoCall
  /\ hist = InitHist({})
  /\ retry = NoRetry

\* a limiter made by NewRateLimiter at time 0, then used by transfers
InitLimiter ==
  /\ EnginesOff
  /\ backoff = NoBackoff /\ classified = NoClassified /\ handler = NoHandler
  /\ InitAside
  /\ \E bps \in BytesPerSecondChoices :
       limiter = [on |-> TRUE, rl |-> NewRateLimiter(bps, 0), now |-> 0,
                  consumed |-> 0, base |-> NewRateLimiter(bps, 0)]

NextLimiter ==
  \/ limiterTick
  \/ limiterWaitForCapacity
  \/ \E bytes \in 0..MaxBytes : limiterConsumeCapacity(bytes)

SpecLimiter == InitLimiter /\ [][NextLimiter]_vars

\* a handler made by NewConflictHandler(strategy) and an empty ConflictLog
InitHandler ==
  /\ EnginesOff
  /\ backoff = NoBackoff /\ classified = NoClassified /\ limiter = NoLimiter
  /\ InitAside
  /\ \E strategy \in HandlerStrategies :
       handler = [NoHandler EXCEPT !.on = TRUE, !.strategy = strategy]

NextHandler ==
  \/ handlerTick
  \/ \E path \in HandlerPaths, local \in LocalViews, remote_ \in RemoteViews :
       handlerResolveConflict(path, local, remote_)

SpecHandler == InitHandler /\ [][NextHandler]_vars

\* resolution by modification time in both engines: a ConflictHandler on its
\* own, or a sync.Engine with ConflictResolution "newer" whose one path is
\* pending with a file on both sides
InitNewer ==
  /\ InitLib
  /\ \E lc, rc \in Contents, lt, rt \in Times :
       LET s == BothSides(lc, lt, rc, rt)
       IN /\ db = <<s.row>> /\ fs = <<s.fs>> /\ remote = <<s.remote>>
  /\ events = {}
  /\ cfg = [maxConcurrent |-> 0, conflictResolution |-> "newer"]
  /\ cyclePc = "idle"
  /\ workers = <<>>
  /\ enh = NoCall
  /\ retry = NoRetry
  /\ hist = InitHist({1})

InitByTime == InitHandler \/ InitNewer

NextByTime ==
  \/ handlerTick
  \/ \E path \in HandlerPaths, local \in LocalViews, remote_ \in RemoteViews :
       handlerResolveConflict(path, local, remote_)
  \/ performSyncStart
  \/ \E i \in 1..Len(workers) : syncFileBegin(i)
  \/ \E i \in 1..Len(workers), api \in {"ok"} \cup ApiFailures, t \in Times :
       syncFileFinish(i, api, t)
  \/ performSyncEnd

SpecByTime == InitByTime /\ [][NextByTime]_vars

\* the database on its own: a table left by earlier runs, then upserts of
\* the change detector, a listing, and syncFile on the listed entries.
\* The first path has a row of any status, the second one a row that waits
\* for a sync, the others rows that a listing leaves out.
InitStore ==
  /\ fs = <<>> /\ remote = <<>>
  /\ events = {}
  /\ cfg = [maxConcurrent |-> 0, conflictResolution |-> "newer"]
  /\ cyclePc = "off"
  /\ workers = <<>>
  /\ enh = NoCall
  /\ hist = InitHist({})
  /\ retry = NoRetry
  /\ backoff = NoBackoff /\ classified = NoClassified
  /\ limiter = NoLimiter /\ handler = NoHandler
  /\ run = NoRun /\ progress = NoProgress
  /\ \E tbl \in [StorePaths -> {NoRow} \cup StoredRows] :
       /\ tbl[2] = NoRow \/ tbl[2].status \in {"pending", "error"}
       /\ \A p \in StorePaths :
            p > 2 => \/ tbl[p] = NoRow
                     \/ tbl[p].mtime = 1 /\ tbl[p].status \in {"synced", "syncing"}
       /\ db = tbl
       /\ LET tracked == {p \in StorePaths : tbl[p].tracked}
          IN store = [NoStore EXCEPT
                        !.on = TRUE,
                        !.ids = [p \in StorePaths |->
                                   IF p \in tracked
                                     THEN Cardinality({q \in tracked : q <= p})
                                     ELSE 0],
                        !.seq = Cardinality(tracked),
                        !.last = [p \in StorePaths |-> NoUpsert],
                        !.lastSync = [p \in StorePaths |-> 0]]

NextStore ==
  \/ \E p \in ChangedPaths : storeSaveFileMetadata(p)
  \/ \E p \in StorePaths : storeGetFileMetadata(p)
  \/ storeGetPendingFiles
  \/ \E k \in StorePaths, ok \in BOOLEAN : storeSyncFile(k, ok)

SpecStore == InitStore /\ [][NextStore]_vars

\* a ProgressTracker made by NewProgressTracker, then used by a sync run
InitProgress ==
  /\ EnginesOff
  /\ backoff = NoBackoff /\ classified = NoClassified
  /\ limiter = NoLimiter /\ handler = NoHandler
  /\ store = NoStore /\ run = NoRun
  /\ progress = [NoProgress EXCEPT !.on = TRUE]

NextProgress ==
  \/ progressTick
  \/ \E files \in (0 - 1)..MaxCalls, bytes \in {0, MaxBytes} :
       SetTotals(files, bytes)
  \/ \E bytes \in {1, MaxBytes} : UpdateFileProgress("a", bytes)
  \/ CompleteFile("a")
  \/ AddError
  \/ progressGetProgress

SpecProgress == InitProgress /\ [][NextProgress]_vars

\* a started engine over an empty store: the watcher reports changes of the
\* watched names, present or not on disk, and the loop handles them
InitWatch ==
  /\ db = [n \in WatchedNames |-> NoRow]
  /\ \E f \in {Absent, File(1, 1)} : fs = [n \in WatchedNames |-> f]
  /\ remote = [n \in WatchedNames |-> Absent]
  /\ events = {}
  /\ cfg = [maxConcurrent |-> 0, conflictResolution |-> "newer"]
  /\ cyclePc = "idle"
  /\ workers = <<>>
  /\ enh = NoCall
  /\ retry = NoRetry
  /\ hist = InitHist(WatchedNames)
  /\ backoff = NoBackoff /\ classified = NoClassified
  /\ limiter = NoLimiter /\ handler = NoHandler
  /\ store = NoStore /\ progress = NoProgress
  /\ run = [NoRun EXCEPT !.started = TRUE, !.isRunning = TRUE,
                         !.watchPc = "select"]

NextWatch ==
  \/ \E name \in WatchedNames, op \in EventOps : fsNotify(name, op)
  \/ \E event \in run.notes : handleFileEvent(event)
  \/ \E p \in WatchedNames, hashOk \in BOOLEAN : queueFileForSync(p, hashOk)
  \/ engineStop
  \/ watchFileChangesReturn
  \/ windowPasses

SpecWatch == InitWatch /\ [][NextWatch]_vars

\* an engine made by NewEngine that is started, stopped and started again
InitRestart ==
  /\ db = [n \in WatchedNames |-> NoRow]
  /\ fs = [n \in WatchedNames |-> File(1, 1)]
  /\ remote = [n \in WatchedNames |-> Absent]
  /\ events = {}
  /\ cfg = [maxConcurrent |-> 0, conflictResolution |-> "newer"]
  /\ cyclePc = "off"
  /\ workers = <<>>
  /\ enh = NoCall
  /\ retry = NoRetry
  /\ hist = InitHist(WatchedNames)
  /\ InitLib

NextRestart ==
  \/ engineStart
  \/ engineStartAgain
  \/ engineStop
  \/ watchFileChangesReturn
  \/ periodicSyncReturn
  \/ \E name \in WatchedNames, op \in EventOps : fsNotify(name, op)
  \/ \E event \in run.notes : handleFileEvent(event)

SpecRestart == InitRestart /\ [][NextRestart]_vars

\* an engine from Start to Stop: the rows of an earlier run are pending or
\* were left syncing; the collaborator answers or fails
InitLife ==
  /\ \E st \in [Paths -> {"pending", "syncing"}] :
       db = [p \in Paths |-> [RemoteOnly(1, 1).row EXCEPT !.status = st[p]]]
  /\ fs = [p \in Paths |-> Absent]
  /\ remote = [p \in Paths |-> File(1, 1)]
  /\ events = {}
  /\ \E mc \in {0, 1} : cfg = [maxConcurrent |-> mc, conflictResolution |-> "newer"]
  /\ cyclePc = "off"
  /\ workers = <<>>
  /\ enh = NoCall
  /\ retry = NoRetry
  /\ hist = InitHist(Paths)
  /\ InitLib

NextLife ==
  \/ engineStart
  \/ engineStop
  \/ ctxCancel
  \/ watchFileChangesReturn
  \/ periodicSyncReturn
  \/ performSyncStart
  \/ \E i \in 1..Len(workers) : syncFileBegin(i)
  \/ \E i \in 1..Len(workers), api \in {"ok", "network"} :
       syncFileFinish(i, api, 1)
  \/ performSyncEnd

\* a loop whose select can take the cancellation takes it in the end (the
\* choice among ready cases is uniform); goroutines are scheduled and the
\* collaborator returns
FairLife ==
  /\ WF_vars(watchFileChangesReturn)
  /\ SF_vars(periodicSyncReturn)
  /\ WF_vars(performSyncEnd)
  /\ \A i \in Paths :
       /\ WF_vars(syncFileBegin(i))
       /\ WF_vars(\E api \in {"ok", "network"} : syncFileFinish(i, api, 1))

SpecLife == InitLife /\ [][NextLife]_vars /\ FairLife

(***************************************************************************)
(* Steps of the engine that the properties speak about.                    *)
(***************************************************************************)
\* worker i returns from syncFile in this step
Finishes(i) ==
  /\ i <= Len(workers) /\ workers[i].pc = "running"
  /\ i <= Len(workers') /\ workers'[i].pc = "done"

\* performSync spawns the workers of a cycle in this step
Dispatches == cyclePc = "idle" /\ cyclePc' = "syncing"

\* the two sides of p hold files of equal content, hence of equal hash
Identical(p) ==
  /\ fs[p].exists /\ ~fs[p].isDir
  /\ remote[p].exists /\ ~remote[p].isDir
  /\ calculateFileHash(fs[p].content) = calculateFileHash(remote[p].content)

Diverged(p) ==
  /\ fs[p].exists /\ ~fs[p].isDir
  /\ remote[p].exists /\ ~remote[p].isDir
  /\ calculateFileHash(fs[p].content) # calculateFileHash(remote[p].content)

\* C1: a worker whose path was upserted as pending by the change detector
\* while its transfer was in flight leaves the stored status pending when it
\* finishes
C1_PendingMarkerKept ==
  [][\A i \in 1..Len(workers) :
       (Finishes(i) /\ workers[i].path \in hist.overtaken)
         => db'[workers[i].path].status = "pending"]_vars

\* C4: in a cycle that follows a completed cycle with no change of the
\* filesystem, the remote side or the store during either cycle or in
\* between, no worker completes an upload or a download (entries that wait
\* for a retry after a network failure set aside)
C4_SecondCycleTransfersNothing ==
  [][\A i \in 1..Len(workers) :
       (Finishes(i) /\ hist.quiet = "cycle"
          /\ hist.fails[workers[i].path] \notin 1..(RetryCap - 1))
         => ~(workers'[i].xfer # "none" /\ workers'[i].err = "ok")]_vars

\* C5: a worker that finds its path on both sides with identical content
\* hash executes no upload and no download, and unless the collaborator
\* fails the entry ends synced
C5_IdenticalHashIsNoOp ==
  [][\A i \in 1..Len(workers) :
       (Finishes(i) /\ workers[i].branch = "conflict"
          /\ Identical(workers[i].path))
         => /\ workers'[i].xfer = "none"
            /\ workers'[i].err = "ok" => db'[workers[i].path].status = "synced"]_vars

\* C6: under the manual strategy a worker that finds its path diverged on
\* both sides transfers nothing and leaves the stored status conflict
C6_ManualLeavesConflict ==
  [][\A i \in 1..Len(workers) :
       (Finishes(i) /\ workers[i].branch = "conflict"
          /\ cfg.conflictResolution = "manual"
          /\ Diverged(workers[i].path) /\ workers'[i].err = "ok")
         => /\ workers'[i].xfer = "none"
            /\ db'[workers[i].path].status = "conflict"]_vars

\* C7: a path whose transfer failed RetryCap times in a row with a network
\* error is not attempted again
C7_AtMostRetryCapAttempts ==
  [][Dispatches =>
       \A i \in 1..Len(workers') : hist.fails[workers'[i].path] < RetryCap]_vars

\* C8: a path that failed with a permanent error is not dispatched again
\* before the change detector upserts it again
C8_PermanentFailureNotRedispatched ==
  [][Dispatches =>
       \A i \in 1..Len(workers') : hist.fails[workers'[i].path] # Permanent]_vars

\* C9: a worker whose transfer fails with a network error while attempts
\* remain stores the status pending, not error
C9_RetryableFailureRequeued ==
  [][\A i \in 1..Len(workers) :
       (Finishes(i) /\ workers'[i].err = "network"
          /\ hist'.fails[workers[i].path] < RetryCap)
         => db'[workers[i].path].status = "pending"]_vars

\* the paths on which a worker of either pool is at work
EngineBusy == {i \in 1..Len(workers) : workers[i].pc # "done"}
EnhBusyPaths == {enh.ops[k].path : k \in enh.running}

C3_ConcurrencyBounded ==
  /\ Cardinality(Running(workers)) <=
       (IF cfg.maxConcurrent <= 0 THEN DefaultMaxConcurrent
                                  ELSE cfg.maxConcurrent)
  /\ enh.pc # "none" => Cardinality(enh.running) <= enh.cfg.maxConcurrency

\* the pool of the default size is full and a further pending entry waits
\* for a slot
C3_Witness ==
  /\ cfg.maxConcurrent <= 0
  /\ Cardinality(Running(workers)) = DefaultMaxConcurrent
  /\ \E i \in 1..Len(workers) : workers[i].pc = "queued"

\* C10: with the default configuration HandleError asks for a retry exactly
\* when attempt < MaxAttempts and the error is a network, timeout or conflict
\* error; for auth, permission and validation errors it returns (false, 0)
C10_RetryExactlyForTransientClasses ==
  retry.called =>
    /\ retry.out.shouldRetry <=>
         (/\ retry.attempt < DefaultRetryConfig.maxAttempts
          /\ retry.err.type \in {"network", "timeout", "conflict"})
    /\ retry.err.type \in {"auth", "permission", "validation"} =>
         retry.out = [shouldRetry |-> FALSE, delay |-> 0]

\* a conflict error at the last attempt below the cap is retried
C10_Witness ==
  /\ retry.called /\ retry.err.type = "conflict"
  /\ retry.attempt = DefaultRetryConfig.maxAttempts - 1
  /\ retry.out.shouldRetry

\* C11: a quota error is retried while attempts remain, with 5 times the
\* base backoff of the attempt as delay, more than a network error gets
C11_QuotaRetriedWithLongerDelay ==
  (/\ retry.called /\ retry.err.type = "quota"
   /\ retry.attempt \in 0..(DefaultRetryConfig.maxAttempts - 1))
    => /\ retry.out.shouldRetry
       /\ retry.out.delay = 5 * GetDelay(DefaultRetryConfig, retry.attempt)
       /\ retry.out.delay >
            HandleError(DefaultRetryConfig,
                        NewSyncError("network", retry.err.cause),
                        retry.attempt).delay

\* C12: the delay of a retried error never exceeds maxDelay, and the delay
\* of the next attempt, when that one is retried too, is not smaller
C12_DelayMonotoneAndCapped ==
  (backoff.called /\ backoff.out.shouldRetry)
    => /\ backoff.out.delay <= backoff.rc.maxDelay
       /\ LET next == HandleError(backoff.rc, backoff.err, backoff.attempt + 1)
          IN next.shouldRetry => next.delay >= backoff.out.delay

\* an attempt whose delay is cut to maxDelay, after a smaller earlier delay
C12_Witness ==
  /\ backoff.called /\ backoff.out.shouldRetry
  /\ backoff.err.type = "network" /\ backoff.attempt > 0
  /\ backoff.out.delay = backoff.rc.maxDelay
  /\ backoff.rc.initialDelay * pow(backoff.rc.backoffFactor, backoff.attempt)
       > backoff.rc.maxDelay
  /\ HandleError(backoff.rc, backoff.err, 0).delay < backoff.out.delay

\* C20: ClassifyHTTPError maps 401 to auth, 403 to permission, 429 to quota,
\* 409 to conflict, 408 and 504 to timeout, 400 to validation, every other
\* code from 500 on to network and every remaining code to unknown; without
\* a cause the result is retryable exactly for network, timeout and conflict
C20_StatusCodesClassified ==
  classified.called =>
    LET code == classified.status
        type == classified.err.type
    IN /\ (code = 401) <=> (type = "auth")
       /\ (code = 403) <=> (type = "permission")
       /\ (code = 429) <=> (type = "quota")
       /\ (code = 409) <=> (type = "conflict")
       /\ (code = 408 \/ code = 504) <=> (type = "timeout")
       /\ (code = 400) <=> (type = "validation")
       /\ (code >= 500 /\ code # 504) <=> (type = "network")
       /\ (code < 500 /\ code \notin {400, 401, 403, 408, 409, 429})
            <=> (type = "unknown")
       /\ classified.err.cause = "nil" =>
            (classified.err.retryable
               <=> type \in {"network", "timeout", "conflict"})

\* a gateway timeout without a cause is classified as a retryable timeout
C20_Witness ==
  /\ classified.called /\ classified.status = 504
  /\ classified.err = [type |-> "timeout", cause |-> "nil", retryable |-> TRUE]

\* C13: the bytes consumed through an enabled limiter since it was made do
\* not exceed its capacity plus bytesPerSecond times the time elapsed
C13_ConsumptionBounded ==
  (limiter.on /\ limiter.rl.bytesPerSecond > 0)
    => limiter.consumed * TicksPerSecond
         <= limiter.rl.bytesPerSecond * TicksPerSecond
              + limiter.rl.bytesPerSecond * limiter.now

C16_SameTimestampSkips ==
  (handler.strategy = "newest" /\ handler.last # NoResolve)
    => handler.last.out.type =
         CASE handler.last.remote.modTime > handler.last.local.modTime
                -> "download"
           [] handler.last.local.modTime > handler.last.remote.modTime
                -> "upload"
           [] OTHER -> "skip"

\* C17: under largest the larger side wins, and on equal sizes the result
\* is upload when the local copy is strictly newer, download otherwise
C17_LargestTieFallsToNewest ==
  (handler.strategy = "largest" /\ handler.last # NoResolve)
    => handler.last.out.type =
         CASE handler.last.local.size > handler.last.remote.size -> "upload"
           [] handler.last.local.size < handler.last.remote.size -> "download"
           [] OTHER ->
                IF handler.last.local.modTime > handler.last.remote.modTime
                  THEN "upload" ELSE "download"

\* C18: when the download planned by keep-both for a path present on both
\* sides completes, the local copy has been renamed to its conflict path
C18_RenamedBeforeDownload ==
  [][\A k \in EnhPaths :
       (/\ k \in enh.running /\ k \notin enh'.running
        /\ enh.cfg.resolution = "keepBoth"
        /\ enh.ops[k].type = "download"
        /\ enh.local[enh.ops[k].path].present
        /\ enh'.result.downloaded > enh.result.downloaded)
         => \E now \in 0..MaxClock :
              conflictPath(enh.ops[k].path, now) \in handler'.renamed]_vars

\* C19: the ConflictLog holds one record for every call of ResolveConflict
C19_EveryResolutionLogged ==
  handler.on => Len(handler.conflicts) = handler.calls

\* C21: the listing of GetPendingFiles holds exactly the rows whose status
\* is pending, conflict or error, each once and as stored, never a synced
\* or syncing row, in descending order of modified_time
C21_PendingListedNewestFirst ==
  [][(~store.listed /\ store'.listed) =>
       LET s == store'.listing
       IN /\ \A p \in StorePaths :
               (db[p].tracked /\ db[p].status \in {"pending", "conflict", "error"})
                 <=> (\E k \in 1..Len(s) : s[k].m.path = p)
          /\ \A k \in 1..Len(s) :
               /\ s[k].m.status \notin {"synced", "syncing"}
               /\ s[k].m.mtime = db[s[k].m.path].mtime
               /\ s[k].m.status = db[s[k].m.path].status
          /\ \A j, k \in 1..Len(s) :
               j < k => /\ s[j].m.path # s[k].m.path
                        /\ s[j].m.mtime >= s[k].m.mtime]_vars

\* two rows were listed, the later modified first, and a syncing row of the
\* table was left out
C21_Witness ==
  /\ store.listed /\ Len(store.listing) >= 2
  /\ store.listing[1].m.mtime > store.listing[2].m.mtime
  /\ \E p \in StorePaths : db[p].tracked /\ db[p].status = "syncing"

\* C22: the table (keyed by local_path, one row per path) returns for a
\* path the fields of its last upsert, and an upsert of the entry that was
\* upserted last for the path leaves what GetFileMetadata returns unchanged
C22_UpsertReplacesAndIsIdempotent ==
  /\ [](store.on =>
         \A p \in StorePaths :
           store.last[p] # NoUpsert =>
             GetFileMetadata(db, store.ids, p).m = store.last[p])
  /\ [][(store'.seq # store.seq
           /\ store.last[store'.saved] # NoUpsert
           /\ store'.last[store'.saved] = store.last[store'.saved])
          => GetFileMetadata(db', store'.ids, store'.saved)
               = GetFileMetadata(db, store.ids, store'.saved)]_vars

\* C30: an upsert of a tracked path keeps the id of its row, and every row
\* of sync_operations refers to the row of the path it was written for
C30_EntryIdentifierStable ==
  /\ [][\A p \in StorePaths :
          (store.on /\ db[p].tracked /\ db'[p].tracked)
            => store'.ids[p] = store.ids[p]]_vars
  /\ [](\A k \in 1..Len(store.log) :
          /\ db[store.log[k].path].tracked
          /\ store.ids[store.log[k].path] = store.log[k].fileID)

\* C23: when the upload of a path without remote id succeeds, the stored
\* entry has a remote id and the status synced
C23_UploadYieldsRemoteID ==
  [][\A i \in 1..Len(workers) :
       (Finishes(i) /\ workers[i].branch = "upload" /\ workers'[i].err = "ok")
         => /\ db'[workers[i].path].remoteID # NoRemoteID
            /\ db'[workers[i].path].status = "synced"]_vars

C25_IgnoredNeverUpserted ==
  \A n \in DOMAIN db :
    LET name == Base(n)
    IN (\/ name[1] = "."
        \/ \E suffix \in {<<".", "t", "m", "p">>, <<".", "t", "e", "m", "p">>,
                          <<".", "s", "w", "p">>, <<".", "s", "w", "o">>,
                          <<"~">>} : HasSuffix(name, suffix)
        \/ name \in {<<"T", "h", "u", "m", "b", "s", ".", "d", "b">>,
                     <<".", "D", "S", "_", "S", "t", "o", "r", "e">>,
                     <<"d", "e", "s", "k", "t", "o", "p", ".", "i", "n", "i">>})
         => ~db[n].tracked

\* a write of an editor backup file was handled and dropped
C25_Witness ==
  /\ [name |-> <<"d", "/", "a", "~">>, op |-> "write"] \in run.handled
  /\ events = {}

\* C26: after Stop or the cancellation of the context both loops return
\* and the workers finish, and no sync cycle is started any more
C26_CancellationStopsLoops ==
  /\ Cancelled ~> (/\ run.watchPc = "returned" /\ cyclePc = "off"
                   /\ \A i \in 1..Len(workers) : workers[i].pc = "done")
  /\ [][Cancelled => ~Dispatches]_vars

\* C27: the file percentage of a snapshot is completedFiles / totalFiles
\* x 100 when totalFiles > 0 and 0 when totalFiles is 0; CompleteFile adds
\* one to completedFiles; SetTotals leaves the completed counters alone
C27_PercentageAndCounters ==
  /\ [](progress.info # NoInfo =>
         LET i == progress.info
         IN /\ i.totalFiles > 0 =>
                 /\ i.fileProgress.den > 0
                 /\ i.fileProgress.num * i.totalFiles
                      = 100 * i.completedFiles * i.fileProgress.den
            /\ i.totalFiles = 0 =>
                 /\ i.fileProgress.den > 0 /\ i.fileProgress.num = 0
            /\ i.completedFiles = progress.pt.completedFiles
            /\ i.totalFiles = progress.pt.totalFiles)
  /\ [][(progress'.pt # progress.pt \/ progress'.op # progress.op) =>
          /\ progress'.op = "CompleteFile" =>
               progress'.pt.completedFiles = progress.pt.completedFiles + 1
          /\ progress'.op = "SetTotals" =>
               /\ progress'.pt.completedFiles = progress.pt.completedFiles
               /\ progress'.pt.transferredBytes = progress.pt.transferredBytes]_vars

\* one file of three is completed: a third of a hundred
C27_Witness ==
  /\ progress.info # NoInfo
  /\ progress.info.totalFiles = 3 /\ progress.info.completedFiles = 1
  /\ progress.info.fileProgress = Frac(100, 3)

C29_StartedInListingOrder ==
  [][\A i \in 1..Len(workers) :
       (workers[i].pc = "queued" /\ i <= Len(workers')
          /\ workers'[i].pc = "running")
         => \A j \in 1..(i - 1) : workers[j].pc # "queued"]_vars

\* C31: an upsert that stores a tracked path as pending or error leaves the
\* last_sync of its row unchanged, and the lastSync of GetSyncStats changes
\* only in a step that stores a path as synced
C31_LastSyncOnlyOnSuccess ==
  /\ [][\A p \in StorePaths :
          (/\ store.on /\ store'.upserts # store.upserts /\ store'.saved = p
           /\ db[p].tracked /\ db'[p].status \in {"pending", "error"})
            => store'.lastSync[p] = store.lastSync[p]]_vars
  /\ [][(store.on /\ GetSyncStats(db', store').lastSync
                       # GetSyncStats(db, store).lastSync)
          => db'[store'.saved].status = "synced"]_vars

\* C32: for an attempt k >= 0 the delay of a retried network or timeout error
\* is the smaller of initialDelay x backoffFactor^k and maxDelay, and the
\* delay of a retried conflict error is half of that
C32_DelayIsCappedExponential ==
  (backoff.called /\ backoff.out.shouldRetry /\ backoff.attempt >= 0)
    => LET rc == backoff.rc
           power[i \in 0..backoff.attempt] ==
             IF i = 0 THEN 1 ELSE rc.backoffFactor * power[i - 1]
           grown == rc.initialDelay * power[backoff.attempt]
           capped == IF grown < rc.maxDelay THEN grown ELSE rc.maxDelay
       IN /\ backoff.err.type \in {"network", "timeout"}
               => backoff.out.delay = capped
          /\ backoff.err.type = "conflict" => 2 * backoff.out.delay = capped

\* a conflict error retried at an attempt whose delay is cut to maxDelay
C32_Witness ==
  /\ backoff.called /\ backoff.out.shouldRetry
  /\ backoff.err.type = "conflict" /\ backoff.attempt > 1
  /\ 2 * backoff.out.delay = backoff.rc.maxDelay
  /\ GetDelayUncapped(backoff.rc, backoff.attempt) > backoff.rc.maxDelay

\* C33: the bucket of an enabled limiter is never negative and never above
\* bytesPerSecond, whatever WaitForCapacity and ConsumeCapacity calls were
\* made, and a ConsumeCapacity of more bytes than the bucket holds empties it
C33_BucketWithinBounds ==
  /\ [](limiter.on /\ limiter.rl.bytesPerSecond > 0
         => /\ 0 <= limiter.rl.bucket
            /\ limiter.rl.bucket <= limiter.rl.bytesPerSecond)
  /\ [][(/\ limiter.on /\ limiter.rl.bytesPerSecond > 0
          /\ limiter'.consumed - limiter.consumed > limiter.rl.bucket)
           => limiter'.rl.bucket = 0]_vars

\* more bytes than the capacity were consumed before any time passed
C33_Witness ==
  /\ limiter.on /\ limiter.rl.bytesPerSecond > 0 /\ limiter.now = 0
  /\ limiter.consumed > limiter.rl.bytesPerSecond
  /\ limiter.rl.bucket = 0

\* C40: while the bucket stays below the capacity, the WaitForCapacity
\* calls made since the last ConsumeCapacity have together added as many
\* tokens as one call after the same elapsed time adds (both numbers are
\* whole, so a difference below one token is none)
C40_RefillIndependentOfCalls ==
  (/\ limiter.on /\ limiter.rl.bytesPerSecond > 0
   /\ limiter.rl.bucket < limiter.rl.bytesPerSecond)
    => LET elapsed == limiter.rl.lastUpdate - limiter.base.lastUpdate
       IN limiter.rl.bucket - limiter.base.bucket
            = (elapsed * limiter.rl.bytesPerSecond) \div TicksPerSecond

\* C34: when the hash of a changed file cannot be computed the event is
\* dropped: a queueFileForSync that does not store the hash of the file
\* leaves the row of the path as it was
C34_HashFailureDropsEvent ==
  [][\A p \in DOMAIN db :
       (/\ p \in events /\ p \notin events'
        /\ fs[p].exists /\ ~fs[p].isDir
        /\ db'[p].hash # calculateFileHash(fs[p].content))
         => db'[p] = db[p]]_vars

\* C35: a file is hashed and upserted only once a debounce window has gone
\* by since the last write event on its path
C35_HashDeferredUntilStable ==
  [][\A p \in DOMAIN db :
       (p \in events /\ p \notin events' /\ db'[p].hash # EmptyHash)
         => p \notin run.fresh]_vars

\* C36: a change notification on a tracked path keeps its remote id: the
\* row that queueFileForSync stores has the remote id stored before
C36_NotificationKeepsRemoteID ==
  [][\A p \in DOMAIN db :
       (p \in events /\ p \notin events' /\ db[p].tracked)
         => db'[p].remoteID = db[p].remoteID]_vars

\* C37: Stop never closes stopChan a second time (which would panic), and
\* an engine that reports isRunning has its watch loop and its periodic
\* loop running
C37_EngineRestartable ==
  /\ ~run.panicked
  /\ run.isRunning => (run.watchPc = "select" /\ cyclePc # "off")

\* C38: a call of SynchronizeDirectory whose context is never cancelled
\* eventually returns, with every planned operation dispatched and finished
C38_SynchronizeDirectoryReturns ==
  <>(\/ enh.ctxDone
     \/ /\ enh.pc = "returned"
        /\ enh.next > Len(enh.ops) /\ enh.running = {})

\* C39: once SynchronizeDirectory has returned, with nil or with the error
\* of the context, none of its workers is running and the SyncResult it
\* returned does not change
C39_NoWorkerAfterReturn ==
  /\ [](enh.pc \in {"returned", "cancelled"} => enh.running = {})
  /\ [][enh.pc \in {"returned", "cancelled"}
          => enh'.result = enh.result]_vars

====
